---- MODULE Spec2Model ----
(***************************************************************************)
(* State-machine model of src/unet/train.py: the UNetTrainer program       *)
(* (script entry point, __init__, load_checkpoint, validate_one_batch,     *)
(* validate_fn, run) and the UNetMetrics class (train, eval, update,       *)
(* compute, _to_dataframe).                                                *)
(*                                                                         *)
(* Python name resolution is modelled explicitly: a namespace is a         *)
(* function whose DOMAIN is the set of bound names, and a read of a name   *)
(* outside it raises (NameError for a global, AttributeError for an        *)
(* instance attribute).  A raised exception ends the running call; the     *)
(* variables keep what the call had assigned before the raise.             *)
(***************************************************************************)
EXTENDS Integers, Sequences, FiniteSets, TLC

VARIABLES
    annotations,      \* "eager" | "deferred": when the interpreter evaluates def annotations
    pc,               \* position of the program / of the caller
    entry,            \* "none" | "main" (python train.py) | "api" (import and call)
    globals,          \* module namespace, restricted to the names the modelled code reads
    args,             \* keyword arguments given to UNetTrainer(...)
    attrs,            \* instance attributes of the trainer (self.<name>)
    requires_grad,    \* Model: parameter -> trainable flag
    optimizer_params, \* Optimizer: the parameters it was bound to
    model_state,      \* "fresh" | "loaded"
    optimizer_state,  \* "fresh" | "loaded"
    training,         \* Model mode: TRUE = train(), FALSE = eval()
    last_call,        \* the trainer method that ended last
    exc,              \* exception that ended last_call ("none" when it returned)
    trace,            \* history: the orchestration events, in order
    val_losses,       \* environment: the mean validation loss the k-th validation pass would measure
    val_loader,       \* the loader given to the last run / validation call
    passes,           \* number of validation passes begun
    best_loss,        \* run(): best_loss
    checkpoints,      \* epochs for which run() wrote a checkpoint file
    calls,            \* number of trainer methods called after construction
    scaler_enabled,   \* GradScaler: whether it scales and checks gradients
    train_loader,     \* the loader given to the last train_fn call
    opt_steps,        \* number of optimizer steps applied to the parameters
    m_train,          \* UNetMetrics._train
    metrics,          \* UNetMetrics.metrics: stage -> metric name -> accumulator
    plots,            \* UNetMetrics.plots: stage -> series name -> list
    updates,          \* number of update() calls made on the UNetMetrics instance
    m_call,           \* the UNetMetrics method that ended last
    m_exc,            \* exception that ended m_call
    m_result          \* value returned by m_call (compute, _to_dataframe)

trainerVars == <<pc, entry, globals, args, attrs, requires_grad, optimizer_params,
                 model_state, optimizer_state, training, last_call, exc, trace,
                 val_losses, val_loader, passes, best_loss, checkpoints, calls, scaler_enabled, train_loader, opt_steps>>
metricsVars == <<m_train, metrics, plots, updates, m_call, m_exc, m_result>>
vars == <<annotations, trainerVars, metricsVars>>

-----------------------------------------------------------------------------
(* Bounds of the model *)

\* longest validation loader handed to a validation pass
MaxBatches == 2
\* largest num_epochs a direct caller of UNetTrainer passes
MaxEpochsArg == 2
\* number of update() calls on one UNetMetrics instance
MaxUpdates == 3
\* number of trainer methods a direct caller invokes on one trainer
MaxCalls == 2

(* Program constants *)
NUM_EPOCHS == 80
InitialBestLoss == 9999

-----------------------------------------------------------------------------
(* Strings the code inspects are sequences of characters *)

PthTar == <<".", "p", "t", "h", ".", "t", "a", "r">>
NoPath == <<>>
Paths == { NoPath,
           <<"a">> \o PthTar,
           <<"a", ".", "t", "x", "t">>,
           <<"a", ".", "t", "a", "r">> }

\* str.endswith
endswith(s, suffix) ==
    /\ Len(s) >= Len(suffix)
    /\ SubSeq(s, Len(s) - Len(suffix) + 1, Len(s)) = suffix

\* str.startswith
startswith(s, prefix) ==
    /\ Len(s) >= Len(prefix)
    /\ SubSeq(s, 1, Len(prefix)) = prefix

FinalConv == <<"f", "i", "n", "a", "l", "_", "c", "o", "n", "v">>

\* Model.named_parameters(): the names of the UNET's parameters
Params == { <<"d", "o", "w", "n", "s">>,
            <<"u", "p", "s">>,
            <<"f", "i", "n", "a", "l">>,
            FinalConv \o <<".", "w">>,
            FinalConv \o <<".", "b">> }

\* per-pass mean losses the environment can produce (epoch 0, 1, 2, 3)
LossRuns == { <<5, 3, 4, 2>>, <<2, 2, 3, 1>>, <<10000, 3, 3, 3>> }

Has(ns, name) == name \in DOMAIN ns

\* the module namespace once the top-level statements up to line 589 have run:
\* of the names the modelled functions read as globals, only __name__ is bound
ModuleGlobals(name) == [n \in {"__name__"} |-> name]

\* the module namespace of the script after parse_known_args (line 624)
ScriptGlobals(flags) ==
    [n \in {"__name__", "FLAGS"} |-> IF n = "FLAGS" THEN flags ELSE "__main__"]

\* a call result: the exception raised ("none": returned) and the line raising it
Raise(name, line) == [exc |-> name, line |-> line]
Returned == [exc |-> "none", line |-> 0]

-----------------------------------------------------------------------------
(* UNetTrainer.load_checkpoint, lines 285-312 *)

\* lines 302-312: the trainable flags the freeze branch assigns
freeze_policy(freeze) ==
    IF ~freeze
    THEN [p \in Params |-> TRUE]
    ELSE [p \in Params |-> startswith(p, FinalConv)]

\* load_checkpoint(self): the exception it ends with, the flags and states it
\* leaves, and the events it performed
load_checkpoint(self, g, rg) ==
    LET unchanged == [requires_grad |-> rg, model_state |-> "fresh",
                      optimizer_state |-> "fresh", events |-> << >>]
    IN  IF ~Has(self, "checkpoint_path")
        THEN [res |-> Raise("AttributeError", 290)] @@ unchanged
        ELSE IF ~endswith(self["checkpoint_path"], PthTar)
        THEN [res |-> Raise("ValueError", 293)] @@ unchanged
        ELSE IF ~Has(g, "checkpoint_path")
        THEN [res |-> Raise("NameError", 298)] @@ unchanged
        ELSE IF ~Has(g, "freeze")
        THEN [res |-> Raise("NameError", 303), requires_grad |-> rg,
              model_state |-> "loaded", optimizer_state |-> "loaded",
              events |-> <<"load">>]
        ELSE [res |-> Returned, requires_grad |-> freeze_policy(g["freeze"]),
              model_state |-> "loaded", optimizer_state |-> "loaded",
              events |-> <<"load", "freeze_policy">>]

-----------------------------------------------------------------------------
(* UNetTrainer.__init__, lines 232-283 *)

\* lines 263-266: the parameters Adam is constructed over
trainable(rg) == {p \in Params : rg[p]}

\* the keyword arguments the model follows (the others do not reach the
\* modelled code)
ArgNames == {"checkpoint_dir", "freeze", "num_epochs"}

UNetTrainer_init(a, g) ==
    LET self0 == [n \in ArgNames |-> a[n]]                    \* 244-252
        rg0 == [p \in Params |-> TRUE]                        \* 255: a fresh UNET
        opt0 == trainable(rg0)                                \* 263-266
        l == IF self0["checkpoint_dir"] # NoPath              \* 268-269
             THEN load_checkpoint(self0, g, rg0)
             ELSE [res |-> Returned, requires_grad |-> rg0, model_state |-> "fresh",
                   optimizer_state |-> "fresh", events |-> << >>]
    IN  [res |-> l.res,
         attrs |-> IF l.res.exc = "none"
                   THEN self0 @@ [n \in {"metrics"} |-> "UNetMetrics"]   \* 283
                   ELSE self0,
         requires_grad |-> l.requires_grad,
         optimizer_params |-> opt0,
         model_state |-> l.model_state,
         optimizer_state |-> l.optimizer_state,
         events |-> <<"bind_optimizer">> \o l.events]

-----------------------------------------------------------------------------
(* The validation passes, lines 442-529 *)

\* a batch of the validation loader: whether the label tensor's spatial shape
\* matches the image's
Batches == [shape_ok : BOOLEAN]
Loaders == UNION { [1..n -> Batches] : n \in 0..MaxBatches }

\* obj[key] is defined for a dict; a UNetMetrics instance defines no __getitem__
Subscriptable(obj) == obj = "dict"

\* lines 457-476: the body of validate_one_batch for the batch it fetched
one_batch_body(self, b) ==
    IF ~b.shape_ok THEN Raise("RuntimeError", 461)
    ELSE IF ~Subscriptable(self["metrics"]) THEN Raise("TypeError", 474)
    ELSE Returned

validate_one_batch(self, loader, loss) ==
    \* 449: self.model.eval()
    LET body == IF Len(loader) = 0 THEN Raise("StopIteration", 455)
                ELSE one_batch_body(self, loader[1])
    IN  IF body.exc # "none"
        THEN [res |-> body, training |-> FALSE, loss |-> 0]
        ELSE [res |-> Returned, training |-> TRUE, loss |-> loss]   \* 479-484

\* lines 499-518: one iteration of validate_fn's loop
fn_batch_body(self, g, b) ==
    IF ~b.shape_ok THEN Raise("RuntimeError", 503)
    ELSE IF ~Subscriptable(self["metrics"]) THEN Raise("TypeError", 513)
    ELSE IF ~Has(g, "accuracy") THEN Raise("NameError", 518)
    ELSE Returned

\* index of the first batch whose iteration raises, 0 when none does
FirstRaising(self, g, loader) ==
    LET bad == {i \in 1..Len(loader) : fn_batch_body(self, g, loader[i]).exc # "none"}
    IN  IF bad = {} THEN 0 ELSE CHOOSE i \in bad : \A j \in bad : i <= j

validate_fn(self, g, loader, loss) ==
    \* 493: self.model.eval()
    LET i == FirstRaising(self, g, loader)
        running_loss == Len(loader) * loss                    \* 517
    IN  IF i # 0
        THEN [res |-> fn_batch_body(self, g, loader[i]), training |-> FALSE, loss |-> 0]
        ELSE IF Len(loader) = 0
        THEN [res |-> Raise("ZeroDivisionError", 520), training |-> FALSE, loss |-> 0]
        ELSE [res |-> Returned, training |-> TRUE,            \* 524
              loss |-> running_loss \div Len(loader)]         \* 520

-----------------------------------------------------------------------------
(* The training pass, lines 403-440 *)

\* a batch of the training loader: whether the label tensor's spatial shape
\* matches the image's, and whether the loss's gradients are all finite
TrainBatches == [shape_ok : BOOLEAN, finite : BOOLEAN]
TrainLoaders == UNION { [1..n -> TrainBatches] : n \in 0..MaxBatches }

\* line 421, GradScaler.step: an enabled scaler leaves optimizer.step() out
\* when it finds a non-finite gradient; a disabled one only calls it
scaler_step(enabled, b) == IF enabled /\ ~b.finite THEN "skip_step" ELSE "optimizer_step"

\* the loop of lines 409-440 from batch i on; done carries what the earlier
\* iterations did
RECURSIVE train_loop(_, _, _, _, _)
train_loop(self, loader, enabled, i, done) ==
    IF i > Len(loader) THEN done
    ELSE IF ~loader[i].shape_ok                               \* 416
    THEN [done EXCEPT !.res = Raise("RuntimeError", 416)]
    ELSE LET stepped == scaler_step(enabled, loader[i])
             after == [res |-> done.res,
                       events |-> done.events \o
                           <<"zero_grad", "backward", stepped>>,     \* 419-421
                       steps |-> done.steps +
                           (IF stepped = "optimizer_step" THEN 1 ELSE 0),
                       batches |-> done.batches]
         IN  IF ~Subscriptable(self["metrics"])               \* 431
             THEN [after EXCEPT !.res = Raise("TypeError", 431)]
             ELSE train_loop(self, loader, enabled, i + 1,
                             [after EXCEPT !.batches = @ + 1])  \* 435

\* UNetTrainer.train_fn
train_fn(self, loader, enabled) ==
    train_loop(self, loader, enabled, 1,
               [res |-> Returned, events |-> << >>, steps |-> 0, batches |-> 0])

-----------------------------------------------------------------------------
(* UNetTrainer.run, lines 531-588 *)

run(self, g, loader, loss, tr) ==
    LET still == [training |-> tr, best_loss |-> InitialBestLoss,
                  checkpoints |-> {}, passes |-> 0]
    IN  IF ~Has(g, "FLAGS")                                   \* 536 -> 359
        THEN [res |-> Raise("NameError", 359), events |-> << >>] @@ still
        ELSE IF self["num_epochs"] > 0                        \* 540: epoch = 0
        THEN LET v == validate_fn(self, g, loader, loss)      \* 545
             IN  [res |-> v.res,                              \* 546: return
                  events |-> <<"epoch_validation">>,
                  training |-> v.training, passes |-> 1] @@ still
        ELSE LET v == validate_fn(self, g, loader, loss)      \* 571
             IN  [res |-> IF v.res.exc # "none" THEN v.res
                          ELSE Raise("UnboundLocalError", 573),
                  events |-> <<"final_validation">>,
                  training |-> v.training, passes |-> 1] @@ still

-----------------------------------------------------------------------------
(* UNetMetrics, lines 34-205 *)

Stages == {"train", "val"}

\* dict iteration follows insertion order: lines 55-61 and 63-70
StageOrder == <<"train", "val">>
MetricOrder == <<"acc", "dice">>
PlotOrder == <<"step", "loss", "acc", "dice">>

\* UNetMetrics.__init__, lines 55-61, with the accumulators of a new
\* torchmetrics.Accuracy and torchmetrics.Dice (micro average)
NewMetrics ==
    [stage \in Stages |->
        [acc |-> [correct |-> 0, total |-> 0],
         dice |-> [tp |-> 0, fp |-> 0, fn |-> 0]]]

\* UNetMetrics.__init__, lines 63-70
NewPlots ==
    [stage \in Stages |-> [step |-> << >>, loss |-> << >>, acc |-> << >>, dice |-> << >>]]

\* the (preds, targets) pairs given to update: whether their shapes agree, and
\* how many of the counted elements are predicted correctly
MetricBatches == { [shape_ok |-> TRUE, correct |-> 1, total |-> 2],
                   [shape_ok |-> TRUE, correct |-> 2, total |-> 2],
                   [shape_ok |-> FALSE, correct |-> 0, total |-> 0] }
StepValues == {0, 1}
LossValues == {1, 2}

\* a ratio is kept as <<numerator, denominator>>
\* metric(preds, targets): the accumulator after the batch
metric_update(name, state, b) ==
    IF name = "acc"
    THEN [correct |-> state.correct + b.correct, total |-> state.total + b.total]
    ELSE [tp |-> state.tp + b.correct,
          fp |-> state.fp + (b.total - b.correct),
          fn |-> state.fn + (b.total - b.correct)]

\* metric(preds, targets): the value returned, the metric of the batch alone
metric_forward(name, b) ==
    IF name = "acc"
    THEN <<b.correct, b.total>>
    ELSE <<2 * b.correct, 2 * b.correct + 2 * (b.total - b.correct)>>

\* metric.compute(): the aggregate over everything accumulated
metric_compute(name, state) ==
    IF name = "acc"
    THEN <<state.correct, state.total>>
    ELSE <<2 * state.tp, 2 * state.tp + state.fp + state.fn>>

\* line 94 without the read of self._train
active_stage_ignoring_mode(tr) == "train"

\* line 94
active_stage(tr) == IF tr THEN "train" ELSE "val"

\* metric(preds, targets) raises on mismatched shapes.  Whether the accumulator
\* survives is the torchmetrics release's choice: forward() either validates the
\* batch in a first update() on the accumulated state, which stays as it was,
\* or sets the accumulated state aside, calls reset(), and raises in update()
\* before it merges the state back.
FailureOutcomes == {"state_kept", "state_reset"}

\* the accumulator a raising metric(preds, targets) leaves behind
metric_raise(name, state, outcome) ==
    IF outcome = "state_kept" THEN state ELSE NewMetrics["train"][name]

\* lines 84-102 without the append of line 102
update_without_dice_append(tr, m, pl, step, loss, b, outcome) ==
    LET stage == active_stage(tr)
    IN  IF ~b.shape_ok
        THEN [res |-> Raise("ValueError", 96),
              metrics |-> [m EXCEPT ![stage]["acc"] = metric_raise("acc", @, outcome)],
              plots |-> pl]
        ELSE [res |-> Returned,
              metrics |-> [m EXCEPT
                  ![stage]["acc"] = metric_update("acc", @, b),
                  ![stage]["dice"] = metric_update("dice", @, b)],
              plots |-> [pl EXCEPT
                  ![stage]["step"] = Append(@, step),
                  ![stage]["loss"] = Append(@, loss),
                  ![stage]["acc"] = Append(@, metric_forward("acc", b))]]

\* UNetMetrics.update, lines 84-102
update(tr, m, pl, step, loss, b, outcome) ==
    LET stage == active_stage(tr)                                     \* 94
    IN  IF ~b.shape_ok
        THEN [res |-> Raise("ValueError", 96),                        \* 96 raises
              metrics |-> [m EXCEPT ![stage]["acc"] = metric_raise("acc", @, outcome)],
              plots |-> pl]
        ELSE [res |-> Returned,
              metrics |-> [m EXCEPT
                  ![stage]["acc"] = metric_update("acc", @, b),       \* 96
                  ![stage]["dice"] = metric_update("dice", @, b)],    \* 97
              plots |-> [pl EXCEPT
                  ![stage]["step"] = Append(@, step),                 \* 99
                  ![stage]["loss"] = Append(@, loss),                 \* 100
                  ![stage]["acc"] = Append(@, metric_forward("acc", b)),    \* 101
                  ![stage]["dice"] = Append(@, metric_forward("dice", b))]] \* 102

\* lines 110-113 for one stage: every metric assigns result[stage] anew
RECURSIVE compute_stage(_, _, _)
compute_stage(ms, i, result) ==
    IF i > Len(MetricOrder)
    THEN result
    ELSE LET metric_name == MetricOrder[i]
         IN  compute_stage(ms, i + 1,
                [n \in {metric_name} |-> metric_compute(metric_name, ms[metric_name])])

\* UNetMetrics.compute, lines 104-114
compute(m) ==
    [stage \in Stages |-> compute_stage(m[stage], 1, << >>)]

\* lines 126-135 for one series: zip stops at its shortest argument
series_rows(pl, stage_name, metric_name) ==
    LET values == pl[stage_name][metric_name]
        batch == pl[stage_name]["batch"]
        n == IF Len(batch) < Len(values) THEN Len(batch) ELSE Len(values)
    IN  [k \in 1..n |-> <<batch[k], stage_name, metric_name, values[k]>>]

RECURSIVE frame_rows(_, _, _)
frame_rows(pl, i, j) ==
    IF i > Len(StageOrder) THEN << >>
    ELSE IF j > Len(PlotOrder) THEN frame_rows(pl, i + 1, 1)
    ELSE (IF PlotOrder[j] # "batch"                                   \* 125
          THEN series_rows(pl, StageOrder[i], PlotOrder[j])
          ELSE << >>) \o frame_rows(pl, i, j + 1)

\* UNetMetrics._to_dataframe, lines 116-144
_to_dataframe(g, pl) ==
    IF ~Has(g, "alt_names")
    THEN [res |-> Raise("NameError", 126), rows |-> << >>]
    ELSE IF \E n \in {"train", "step"} : ~Has(g["alt_names"], n)
    THEN [res |-> Raise("KeyError", 127), rows |-> << >>]
    ELSE IF ~Has(pl[StageOrder[1]], "batch")
    THEN [res |-> Raise("KeyError", 131), rows |-> << >>]
    ELSE [res |-> Returned, rows |-> frame_rows(pl, 1, 1)]

-----------------------------------------------------------------------------
(* The program: import, the script of lines 591-641, and direct callers *)

\* the loss the next validation pass measures
NextLoss == val_losses[IF passes < Len(val_losses) THEN passes + 1 ELSE Len(val_losses)]

FlagValues == [checkpoint : Paths, freeze : BOOLEAN, debug : BOOLEAN]
ArgValues == [checkpoint_dir : Paths, freeze : BOOLEAN, num_epochs : 0..MaxEpochsArg]

Init ==
    /\ annotations \in {"eager", "deferred"}
    /\ pc = "boot"
    /\ entry = "none"
    /\ globals = ModuleGlobals("unet.train")
    /\ args = [n \in {} |-> 0]
    /\ attrs = [n \in {} |-> 0]
    /\ requires_grad = [p \in Params |-> TRUE]
    /\ optimizer_params = {}
    /\ model_state = "fresh"
    /\ optimizer_state = "fresh"
    /\ training = TRUE
    /\ last_call = "none"
    /\ exc = Returned
    /\ trace = << >>
    /\ val_losses \in LossRuns
    /\ val_loader = << >>
    /\ passes = 0
    /\ best_loss = InitialBestLoss
    /\ checkpoints = {}
    /\ calls = 0
    /\ scaler_enabled = FALSE
    /\ train_loader = << >>
    /\ opt_steps = 0
    /\ m_train = TRUE
    /\ metrics = NewMetrics
    /\ plots = NewPlots
    /\ updates = 0
    /\ m_call = "none"
    /\ m_exc = Returned
    /\ m_result = << >>

\* Executing the module's class and def statements.  Line 84 annotates two
\* parameters with Tensor, a name the module never binds: an interpreter that
\* evaluates annotations at definition time raises NameError there, one that
\* defers them (PEP 649) does not.
ImportModule ==
    /\ pc = "boot"
    /\ IF annotations = "eager"
       THEN pc' = "failed" /\ exc' = Raise("NameError", 84)
       ELSE pc' = "imported" /\ exc' = exc
    /\ last_call' = "import"
    /\ UNCHANGED <<annotations, entry, globals, args, attrs, requires_grad,
                   optimizer_params, model_state, optimizer_state, training, trace,
                   val_losses, val_loader, passes, best_loss, checkpoints, calls, scaler_enabled, train_loader, opt_steps,
                   metricsVars>>

\* lines 591-638 up to the constructor call: parse the flags, refuse freeze
\* without a checkpoint, and fix the constructor's arguments
script_start ==
    /\ pc = "imported"
    /\ entry = "none"
    /\ \E flags \in FlagValues :
        /\ globals' = ScriptGlobals(flags)                    \* 624
        /\ IF flags.freeze /\ flags.checkpoint = NoPath       \* 626-627
           THEN /\ pc' = "failed"
                /\ exc' = Raise("ValueError", 627)
                /\ args' = args
           ELSE /\ pc' = "construct"
                /\ exc' = exc
                /\ args' = [checkpoint_dir |-> NoPath,        \* 629-638: not passed
                            freeze |-> flags.freeze,
                            num_epochs |-> NUM_EPOCHS]
    /\ entry' = "main"
    /\ last_call' = "script"
    /\ UNCHANGED <<annotations, attrs, requires_grad, optimizer_params, model_state,
                   optimizer_state, training, trace, val_losses, val_loader, passes, best_loss,
                   checkpoints, calls, scaler_enabled, train_loader, opt_steps,
                   metricsVars>>

\* a program that imports the module and constructs a trainer itself
api_start ==
    /\ pc = "imported"
    /\ entry = "none"
    /\ \E a \in ArgValues : args' = a
    /\ entry' = "api"
    /\ pc' = "construct"
    /\ UNCHANGED <<annotations, globals, attrs, requires_grad, optimizer_params,
                   model_state, optimizer_state, training, last_call, exc, trace,
                   val_losses, val_loader, passes, best_loss, checkpoints, calls, scaler_enabled, train_loader, opt_steps,
                   metricsVars>>

\* UNetTrainer(**args)
construct ==
    /\ pc = "construct"
    /\ LET r == UNetTrainer_init(args, globals)
       IN  /\ attrs' = r.attrs
           /\ requires_grad' = r.requires_grad
           /\ optimizer_params' = r.optimizer_params
           /\ model_state' = r.model_state
           /\ optimizer_state' = r.optimizer_state
           /\ trace' = trace \o r.events
           /\ exc' = r.res
           /\ pc' = IF r.res.exc = "none" THEN "ready" ELSE "failed"
    /\ training' = TRUE                                       \* a new nn.Module is in train mode
    /\ \E cuda \in BOOLEAN :                                 \* 279: enabled only with CUDA
          scaler_enabled' = (cuda /\ UNetTrainer_init(args, globals).res.exc = "none")
    /\ last_call' = "__init__"
    /\ UNCHANGED <<annotations, entry, globals, args, val_losses, val_loader, passes, best_loss,
                   checkpoints, calls, train_loader, opt_steps,
                   metricsVars>>

\* a method of the script ends the process when it raises; a direct caller
\* may catch the exception and go on using the trainer
AfterCall(res) ==
    IF entry = "main"
    THEN IF res.exc = "none" THEN "done" ELSE "failed"
    ELSE "ready"

\* trainer.run(), line 641 or a direct call
call_run ==
    /\ pc = "ready"
    /\ calls < MaxCalls
    /\ \E loader \in Loaders :
        LET r == run(attrs, globals, loader, NextLoss, training)
        IN  /\ val_loader' = loader
            /\ training' = r.training
            /\ best_loss' = r.best_loss
            /\ checkpoints' = r.checkpoints
            /\ passes' = passes + r.passes
            /\ trace' = trace \o r.events
            /\ exc' = r.res
            /\ pc' = AfterCall(r.res)
    /\ last_call' = "run"
    /\ calls' = calls + 1
    /\ UNCHANGED <<annotations, entry, globals, args, attrs, requires_grad,
                   optimizer_params, model_state, optimizer_state, val_losses, scaler_enabled, train_loader, opt_steps,
                   metricsVars>>

\* trainer.validate_fn(loader), called directly
call_validate_fn ==
    /\ pc = "ready"
    /\ entry = "api"
    /\ calls < MaxCalls
    /\ \E loader \in Loaders :
        LET r == validate_fn(attrs, globals, loader, NextLoss)
        IN  /\ val_loader' = loader
            /\ training' = r.training
            /\ exc' = r.res
    /\ passes' = passes + 1
    /\ trace' = Append(trace, "validate_fn")
    /\ last_call' = "validate_fn"
    /\ calls' = calls + 1
    /\ UNCHANGED <<annotations, pc, entry, globals, args, attrs, requires_grad,
                   optimizer_params, model_state, optimizer_state, val_losses,
                   best_loss, checkpoints, scaler_enabled, train_loader, opt_steps,
                   metricsVars>>

\* trainer.validate_one_batch(loader), called directly
call_validate_one_batch ==
    /\ pc = "ready"
    /\ entry = "api"
    /\ calls < MaxCalls
    /\ \E loader \in Loaders :
        LET r == validate_one_batch(attrs, loader, NextLoss)
        IN  /\ val_loader' = loader
            /\ training' = r.training
            /\ exc' = r.res
    /\ passes' = passes + 1
    /\ trace' = Append(trace, "validate_one_batch")
    /\ last_call' = "validate_one_batch"
    /\ calls' = calls + 1
    /\ UNCHANGED <<annotations, pc, entry, globals, args, attrs, requires_grad,
                   optimizer_params, model_state, optimizer_state, val_losses,
                   best_loss, checkpoints, scaler_enabled, train_loader, opt_steps,
                   metricsVars>>

\* trainer.train_fn(loader, epoch), called directly
call_train_fn ==
    /\ pc = "ready"
    /\ entry = "api"
    /\ calls < MaxCalls
    /\ \E loader \in TrainLoaders :
        LET r == train_fn(attrs, loader, scaler_enabled)
        IN  /\ train_loader' = loader
            /\ opt_steps' = opt_steps + r.steps
            /\ trace' = Append(trace, "train_fn") \o r.events
            /\ exc' = r.res
    /\ last_call' = "train_fn"
    /\ calls' = calls + 1
    /\ UNCHANGED <<annotations, pc, entry, globals, args, attrs, requires_grad,
                   optimizer_params, model_state, optimizer_state, training,
                   val_losses, val_loader, passes, best_loss, checkpoints,
                   scaler_enabled, metricsVars>>

Next ==
    \/ ImportModule
    \/ script_start
    \/ api_start
    \/ construct
    \/ call_run
    \/ call_validate_fn
    \/ call_validate_one_batch
    \/ call_train_fn

Spec == Init /\ [][Next]_vars

-----------------------------------------------------------------------------
(* A program that imports the module, constructs UNetMetrics(num_classes)    *)
(* and calls its methods in any order                                        *)

\* metrics.train(), lines 72-76
UNetMetrics_train ==
    /\ pc = "imported"
    /\ m_train' = TRUE
    /\ m_call' = "train"
    /\ m_exc' = Returned
    /\ m_result' = << >>
    /\ UNCHANGED <<annotations, trainerVars, metrics, plots, updates>>

\* metrics.eval(), lines 78-82
UNetMetrics_eval ==
    /\ pc = "imported"
    /\ m_train' = FALSE
    /\ m_call' = "eval"
    /\ m_exc' = Returned
    /\ m_result' = << >>
    /\ UNCHANGED <<annotations, trainerVars, metrics, plots, updates>>

\* metrics.update(step, loss, preds, targets)
UNetMetrics_update ==
    /\ pc = "imported"
    /\ updates < MaxUpdates
    /\ \E step \in StepValues, loss \in LossValues, b \in MetricBatches :
      \E outcome \in IF b.shape_ok THEN {"state_kept"} ELSE FailureOutcomes :
        LET r == update(m_train, metrics, plots, step, loss, b, outcome)
        IN  /\ metrics' = r.metrics
            /\ plots' = r.plots
            /\ m_exc' = r.res
    /\ updates' = updates + 1
    /\ m_call' = "update"
    /\ m_result' = << >>
    /\ UNCHANGED <<annotations, trainerVars, m_train>>

\* metrics.compute()
UNetMetrics_compute ==
    /\ pc = "imported"
    /\ m_result' = compute(metrics)
    /\ m_call' = "compute"
    /\ m_exc' = Returned
    /\ UNCHANGED <<annotations, trainerVars, m_train, metrics, plots, updates>>

\* metrics._to_dataframe(), also the whole of write_to_file before to_csv
UNetMetrics_to_dataframe ==
    /\ pc = "imported"
    /\ LET r == _to_dataframe(globals, plots)
       IN  /\ m_result' = r.rows
           /\ m_exc' = r.res
    /\ m_call' = "_to_dataframe"
    /\ UNCHANGED <<annotations, trainerVars, m_train, metrics, plots, updates>>

MetricsNext ==
    \/ ImportModule
    \/ UNetMetrics_train
    \/ UNetMetrics_eval
    \/ UNetMetrics_update
    \/ UNetMetrics_compute
    \/ UNetMetrics_to_dataframe

MetricsSpec == Init /\ [][MetricsNext]_vars

-----------------------------------------------------------------------------
(* Properties *)

\* number of times event e occurs in the trace
Count(e) == Cardinality({i \in DOMAIN trace : trace[i] = e})

\* every batch of the loader is well-shaped, and there is one at least
WellFormed(loader) ==
    /\ Len(loader) > 0
    /\ \A i \in DOMAIN loader : loader[i].shape_ok

\* run() has ended in the script, on a well-formed validation set
RunEnded ==
    /\ entry = "main"
    /\ last_call = "run"
    /\ WellFormed(val_loader)

\* the loss of epoch e is strictly below the loss of every earlier epoch
StrictBest(e) == \A j \in 0..(e - 1) : val_losses[e + 1] < val_losses[j + 1]

\* the epochs of a run whose losses val_losses gives
LossEpochs == {e \in 0..(Len(val_losses) - 1) : e < attrs["num_epochs"]}

\* C1: when run() has ended, a checkpoint exists for epoch e exactly when the
\* validation loss of epoch e is strictly lower than that of every earlier
\* epoch of the run; epoch 0 always has one.
C1_CheckpointIffStrictBest ==
    RunEnded => \A e \in LossEpochs : (e \in checkpoints) <=> StrictBest(e)

\* a validation pass has just ended, by return or by an exception
ValidationEnded ==
    /\ Len(val_loader) > 0
    /\ \/ last_call \in {"validate_fn", "validate_one_batch"}
       \/ last_call = "run" /\ passes > 0

\* C2: whenever a validation pass has ended, normally or by an exception, the
\* Model is in training mode.
C2_ValidationLeavesTrainingMode ==
    ValidationEnded => training

\* the constructor was given the path of a checkpoint file and has ended
InitWithCheckpointEnded ==
    /\ last_call = "__init__"
    /\ endswith(args["checkpoint_dir"], PthTar)

\* C3: a constructor given a checkpoint path loads the checkpoint, then applies
\* the freeze policy, then binds the Optimizer, in this order; no freeze
\* follows the last binding and no binding follows the load without a freeze
\* between them.
C3_LoadFreezeBindOrder ==
    InitWithCheckpointEnded =>
        \E i, j, k \in DOMAIN trace :
            /\ i < j /\ j < k
            /\ trace[i] = "load"
            /\ trace[j] = "freeze_policy"
            /\ trace[k] = "bind_optimizer"
            /\ \A n \in DOMAIN trace : trace[n] = "freeze_policy" => n < k
            /\ \A n \in DOMAIN trace : trace[n] = "load" => n < j

\* the constructor has ended, given no checkpoint or the path of a checkpoint file
InitEnded ==
    /\ last_call \notin {"none", "import", "script"}
    /\ args["checkpoint_dir"] = NoPath \/ endswith(args["checkpoint_dir"], PthTar)

\* C4: once the constructor has ended, with or without a checkpoint to load,
\* it has run to its last statement, a given checkpoint is loaded, and from
\* then on the Optimizer tracks exactly the parameters flagged trainable.
C4_OptimizerTracksTrainable ==
    InitEnded =>
        /\ Has(attrs, "metrics")
        /\ endswith(args["checkpoint_dir"], PthTar) => model_state = "loaded"
        /\ optimizer_params = trainable(requires_grad)

\* C5: when run() has ended, num_epochs epochs were executed, each a training
\* pass followed by a validation pass followed by the checkpoint decision.
C5_EveryEpochTrainsThenValidates ==
    RunEnded =>
        /\ Count("train_pass") = attrs["num_epochs"]
        /\ Count("epoch_validation") = attrs["num_epochs"]
        /\ Count("checkpoint_decision") = attrs["num_epochs"]

\* C6: when run() has ended, it has returned, exactly one final validation
\* pass over the whole loader was executed, and it is the last event of the run.
C6_FinalValidationOnce ==
    RunEnded =>
        /\ exc.exc = "none"
        /\ Count("final_validation") = 1
        /\ trace[Len(trace)] = "final_validation"

\* C7: after load_checkpoint was called with freeze=True, a parameter is
\* trainable exactly when its name begins with the final layer's prefix; after
\* a call with freeze=False every parameter is trainable.
C7_FreezePolicy ==
    InitWithCheckpointEnded =>
        \A p \in Params :
            requires_grad[p] <=> (~args["freeze"] \/ startswith(p, FinalConv))

\* C8: an update made while one Phase is active changes neither the
\* accumulators nor the series of the other Phase, nor what compute() returns
\* for it; a step that is no update changes no accumulator and no series.
C8_PhaseIsolation ==
    [][ LET other == IF m_train THEN "val" ELSE "train"
        IN  /\ updates' # updates =>
                /\ metrics'[other] = metrics[other]
                /\ plots'[other] = plots[other]
                /\ compute(metrics')[other] = compute(metrics)[other]
            /\ updates' = updates =>
                /\ metrics' = metrics
                /\ plots' = plots ]_vars

\* both Phases hold recorded updates, the last successful call being an update
C8_Witness ==
    /\ m_call = "update"
    /\ m_exc.exc = "none"
    /\ Len(plots["train"]["step"]) >= 1
    /\ Len(plots["val"]["step"]) >= 1

\* the observations recorded: one per value of the loss, acc and dice series
Observations ==
    LET n(stage) == Len(plots[stage]["loss"]) + Len(plots[stage]["acc"])
                    + Len(plots[stage]["dice"])
    IN  n("train") + n("val")

\* C9: _to_dataframe completes without error and returns one row per recorded
\* (Phase, metric, step) observation.
C9_OneRowPerObservation ==
    (m_call = "_to_dataframe" /\ Observations > 0) =>
        /\ m_exc.exc = "none"
        /\ Len(m_result) = Observations

\* C10: compute() returns, for each Phase, an entry for every registered
\* metric (acc and dice) holding that accumulator's aggregate.
C10_ComputeHasEveryMetric ==
    m_call = "compute" =>
        \A stage \in Stages :
            /\ DOMAIN m_result[stage] = {"acc", "dice"}
            /\ \A n \in DOMAIN m_result[stage] :
                  m_result[stage][n] = metric_compute(n, metrics[stage][n])

\* the constructor was given a path that is no checkpoint file's, and has ended
InitWithBadPathEnded ==
    /\ last_call = "__init__"
    /\ args["checkpoint_dir"] # NoPath
    /\ ~endswith(args["checkpoint_dir"], PthTar)

\* C11: load_checkpoint on a path that does not end in .pth.tar fails with the
\* format error (the ValueError of line 293), with nothing read and neither
\* the model's nor the optimizer's state modified.
C11_BadExtensionIsFormatError ==
    InitWithBadPathEnded =>
        /\ exc = Raise("ValueError", 293)
        /\ model_state = "fresh"
        /\ optimizer_state = "fresh"
        /\ Count("load") = 0

\* the script was started with these flags
ScriptFlags == globals["FLAGS"]

\* C12: the script started with freeze and no checkpoint path fails with the
\* configuration error before a trainer is constructed; started with freeze
\* and a checkpoint path, the path reaches the trainer, the checkpoint is
\* loaded and the freeze policy applied.
C12_FreezeNeedsAndUsesCheckpoint ==
    entry = "main" =>
        /\ (ScriptFlags.freeze /\ ScriptFlags.checkpoint = NoPath) =>
              /\ exc = Raise("ValueError", 627)
              /\ last_call = "script"
              /\ trace = << >>
        /\ (ScriptFlags.freeze /\ endswith(ScriptFlags.checkpoint, PthTar)
                /\ last_call # "script") =>
              /\ attrs["checkpoint_dir"] = ScriptFlags.checkpoint
              /\ model_state = "loaded"
              /\ Count("freeze_policy") = 1

\* the least of a non-empty set of numbers
Least(S) == CHOOSE x \in S : \A y \in S : x <= y

\* C13: when run() has ended, best_loss is the least of the validation losses
\* of its epochs, however large they are.
C13_BestLossIsMinimum ==
    RunEnded =>
        best_loss = Least({val_losses[e + 1] : e \in LossEpochs})


\* lines 424-425 and 507-508: the (predictions, targets) pair the trainer
\* derives from a well-shaped batch
BatchResult == [shape_ok |-> TRUE, correct |-> 1, total |-> 2]

\* a metric's accumulator after n batches of one cycle, counted from zero
RECURSIVE Accumulated(_, _)
Accumulated(name, n) ==
    IF n = 0 THEN NewMetrics["train"][name]
    ELSE metric_update(name, Accumulated(name, n - 1), BatchResult)

\* a training pass over a well-formed loader has just ended
TrainEnded ==
    /\ last_call = "train_fn"
    /\ WellFormed(train_loader)

\* a validation sweep over a well-formed loader has just ended
SweepEnded ==
    /\ last_call = "validate_fn"
    /\ WellFormed(val_loader)

\* C14: when a Phase cycle has ended (a training pass, a validation sweep),
\* that Phase's accumulators hold the batches of this cycle and nothing else:
\* they were reset at the cycle's start and fed every batch of the cycle.
C14_AccumulatorsCoverOneCycle ==
    /\ TrainEnded =>
          \A name \in DOMAIN metrics["train"] :
              metrics["train"][name] = Accumulated(name, Len(train_loader))
    /\ SweepEnded =>
          \A name \in DOMAIN metrics["val"] :
              metrics["val"][name] = Accumulated(name, Len(val_loader))

\* C15: after the trainer's first pass, the series of the pass's Phase have
\* one entry per batch of the loader and the other Phase's series have none.
C15_OneUpdatePerBatch ==
    calls = 1 =>
        /\ TrainEnded =>
              /\ Len(plots["train"]["loss"]) = Len(train_loader)
              /\ Len(plots["val"]["loss"]) = 0
        /\ SweepEnded =>
              /\ Len(plots["val"]["loss"]) = Len(val_loader)
              /\ Len(plots["train"]["loss"]) = 0

\* C16: when run() has ended, no checkpoint was written if the debug flag is
\* set, and otherwise every epoch whose loss is a new strict best has one.
C16_DebugSuppressesCheckpoints ==
    RunEnded =>
        IF ScriptFlags.debug
        THEN checkpoints = {}
        ELSE \A e \in LossEpochs : StrictBest(e) => e \in checkpoints


\* C17: an update call that fails on a shape mismatch leaves every series and
\* every accumulator of both Phases as they were before the call.
C17_FailedUpdateChangesNothing ==
    [][ (updates' # updates /\ m_exc'.exc # "none") =>
            /\ metrics' = metrics
            /\ plots' = plots ]_vars


\* line 567: the file name of the checkpoint of epoch e
checkpoint_filename(e) == <<"unet1.0-coco-epoch", e, ".pth.tar">>

\* C18: when run() has ended, two epochs that were each a new strict best both
\* have their checkpoint, under different paths: the later one replaced nothing.
C18_CheckpointsKeptApart ==
    RunEnded =>
        \A e1, e2 \in LossEpochs :
            (e1 < e2 /\ StrictBest(e1) /\ StrictBest(e2)) =>
                /\ checkpoint_filename(e1) # checkpoint_filename(e2)
                /\ {e1, e2} \subseteq checkpoints

\* lines 559-562: the records run() puts into a checkpoint
SavedRecords == {"state_dict", "optimizer"}

\* lines 299-300: the records load_checkpoint reads from a checkpoint
LoadedRecords == {"state_dict", "optimizer"}

\* C19: the records written at save are the ones read at load, and a
\* constructor given a checkpoint file ends with the model state and the
\* optimizer state the file holds.
C19_CheckpointRoundTrip ==
    /\ SavedRecords = LoadedRecords
    /\ InitWithCheckpointEnded =>
          /\ exc.exc = "none"
          /\ model_state = "loaded"
          /\ optimizer_state = "loaded"

\* the batches of the training loader whose gradients are finite
FiniteBatches == {i \in DOMAIN train_loader : train_loader[i].finite}

\* C20: after the trainer's first training pass with a working Scaler over a
\* loader holding a batch of non-finite gradients, the pass has returned,
\* every batch had its backward computation right after the gradients were
\* zeroed, and the optimizer stepped for the finite batches only.
C20_NonFiniteBatchIsSkipped ==
    (calls = 1 /\ TrainEnded /\ scaler_enabled
         /\ FiniteBatches # DOMAIN train_loader) =>
        /\ exc.exc = "none"
        /\ Count("backward") = Len(train_loader)
        /\ \A i \in DOMAIN trace :
              trace[i] = "backward" => trace[i - 1] = "zero_grad"
        /\ opt_steps = Cardinality(FiniteBatches)
        /\ Count("skip_step") = Len(train_loader) - Cardinality(FiniteBatches)


\* the series update appends to, lines 99-102
SeriesNames == {"step", "loss", "acc", "dice"}

\* s is an initial part of t
IsPrefix(s, t) == Len(s) <= Len(t) /\ SubSeq(t, 1, Len(s)) = s

\* the step is an update call that returned
SuccessfulUpdate == updates' # updates /\ m_exc'.exc = "none"

\* C21: every series starts empty; an update that returns lengthens each of
\* the four series of the active Phase by one entry (so it changes them) and
\* no step does anything else to a series, so within a Phase the four series have one length, the
\* number of returned updates made while the Phase was active; every series
\* is append-only: what it held before a step is a prefix of what it holds after.
C21_SeriesGrowTogether ==
    /\ \A stage \in Stages, n \in SeriesNames : Len(plots[stage][n]) = 0
    /\ [][ IF plots' = plots
            THEN ~SuccessfulUpdate
            ELSE \A stage \in Stages, n \in SeriesNames :
                   /\ IsPrefix(plots[stage][n], plots'[stage][n])
                   /\ Len(plots'[stage][n]) = Len(plots[stage][n]) +
                         (IF SuccessfulUpdate /\ stage = active_stage(m_train)
                          THEN 1 ELSE 0)
                   /\ Len(plots'[stage][n]) = Len(plots'[stage]["step"]) ]_vars

\* an update has just returned; one Phase holds two updates and the other one
C21_Witness ==
    /\ m_call = "update"
    /\ m_exc.exc = "none"
    /\ Len(plots["train"]["dice"]) = 2
    /\ Len(plots["val"]["dice"]) = 1

====
